---- MODULE Spec2Model ----
(***************************************************************************)
(* Model of scripts/populate_db.py (class PopulateDatabase): the           *)
(* reconciliation engine that creates and updates VisionItem records from  *)
(* a list of file names and a patch csv.                                   *)
(*                                                                         *)
(* Python's None / optional values are modelled as sequences of length     *)
(* at most one: <<>> is None, <<x>> is the value x.  A dict is a function  *)
(* from its keys (strings) to its values.                                  *)
(***************************************************************************)
EXTENDS Integers, Sequences, FiniteSets, TLC

VARIABLES
    store,                    \* VisionItem table: set of records
    alt,                      \* VisionItem.alt_versions rows: set of <<from pk, to pk>>
    nextPk,                   \* next primary key the table hands out
    movie_cache,              \* self._movie_cache: set of cached media ids
    waiting_for_alt_versions, \* self._waiting_for_alt_versions: seq of <<item pk, ref_film>>
    created_item_count,       \* self._created_item_count["visionitem"]
    films_file,               \* the films file on disk: its lines
    patch_file,               \* the patch csv on disk: the dict _read_patch_csv makes of it
    films_txt,                \* the films_txt argument: <<>> (None) or <<the films file>>
    patch_csv,                \* the patch_csv argument: <<>> (None) or <<the patch csv>>
    remote,                   \* the remote source: media id -> "ok" | "none" | "err"
    mode,                     \* entry operation running: "idle" | "populate" | "update"
    pc,                       \* position in it: "idle" | "loop" | "done" | "raised"
    files,                    \* local `files` of _populate/_update
    patch,                    \* local `patch` of _populate/_update
    n,                        \* number of loop iterations completed
    count,                    \* local `count` of _update
    ret,                      \* value returned by the entry operation: <<>> is None
    err,                      \* exception that ended the run ("" when none)
    last,                     \* outcome of the last loop iteration
    reads,                    \* input files opened by the current call
    runs,                     \* entry operations called so far
    call,                     \* history: the engine and the store as the current call found them
    prev,                     \* history: how the previous call ended
    combined,                 \* result of make_combined_dict: <<>> before it is called
    applied,                  \* a reader, the assembler or the matcher applied on its own:
                              \* its arguments and, once it has run, its result
    ops,                      \* store and remote operations of the last loop iteration, in order
    disk,                     \* state of the input files: which can be opened and parsed
    drains                    \* calls of _check_alt_verions the current call has made

vars == <<store, alt, nextPk, movie_cache, waiting_for_alt_versions, created_item_count,
          films_file, patch_file, films_txt, patch_csv, remote, mode, pc, files, patch, n, count, ret, err,
          last, reads, runs, call, prev, combined, applied, ops, disk, drains>>

-----------------------------------------------------------------------------
(* Bounds *)

MaxFiles == 2
MaxRuns == 2
MaxOverrides == 2
MaxCandidates == 3
MaxRows == 2
MaxLines == 3
MaxQueue == 2
MaxCreations == 2

-----------------------------------------------------------------------------
(* Values *)

None == <<>>
Some(x) == <<x>>
IsNone(o) == o = <<>>
Val(o) == o[1]

Get(d, k, default) == IF k \in DOMAIN d THEN d[k] ELSE default

EmptyDict == <<>>

\* File references used as catalog lines and patch keys
Filenames == {"a.mkv", "b.mkv", "c"}

\* pathlib.Path(f).suffix
Suffix(f) ==
    IF f \in {"a.mkv", "b.mkv"} THEN ".mkv"
    ELSE IF f = "A.MKV" THEN ".MKV"
    ELSE IF f = "notes.txt" THEN ".txt"
    ELSE ""

\* pathlib.Path(f).stem
Stem(f) == IF f = "a.mkv" THEN "a" ELSE IF f = "b.mkv" THEN "b" ELSE f

ext == {".avi", ".m4v", ".mkv", ".mov", ".mp4", ".wmv", ".webm"}

digital_default == TRUE

patch_to_model_map(key) ==
    IF key = "media_id" THEN "imdb_id"
    ELSE IF key = "image_url" THEN "img"
    ELSE key

\* str.split(",") on the cells that occur
SplitComma(s) ==
    IF s = "b.mkv," THEN <<"b.mkv", "">>
    ELSE IF s = "Action, Sci-Fi" THEN <<"Action", " Sci-Fi">>
    ELSE IF s = "Tom Skerritt,Ian Holm" THEN <<"Tom Skerritt", "Ian Holm">>
    ELSE <<s>>

\* ",".split(s): the string "," split at the separator s
comma_split_by(s) == IF s = "," THEN <<"", "">> ELSE <<",">>

\* str.strip() on the strings that occur
Strip(s) ==
    CASE s = " Sci-Fi" -> "Sci-Fi"
      [] s = "a.mkv\n" -> "a.mkv"
      [] s = " b.mkv \n" -> "b.mkv"
      [] s = "A.MKV\n" -> "A.MKV"
      [] s = "notes.txt\n" -> "notes.txt"
      [] s = "c\n" -> "c"
      [] s = "\n" -> ""
      [] OTHER -> s

\* str.lower() on the strings that occur
Lower(s) ==
    CASE s = "Alien" -> "alien"
      [] s = "Aliens" -> "aliens"
      [] s = "Solaris" -> "solaris"
      [] s = "Color" -> "color"
      [] s = "Black and White" -> "black and white"
      [] s = "True" -> "true"
      [] s = "False" -> "false"
      [] OTHER -> s

\* "color" in s
contains_color(s) == s = "color"

\* Order in which the rows of the patch csv name their files (dict insertion order)
FileOrder == <<"a.mkv", "b.mkv", "c">>

\* Media known to the remote source and their titles
MovieIds == {"1", "2"}
MovieOrder == <<"1", "2">>
MovieTitle(id) ==
    CASE id = "1" -> "a"
      [] id = "3" -> "Alien"
      [] id = "4" -> "Solaris"
      [] id = "5" -> "Aliens"
      [] id = "6" -> "Alien 3"
      [] id = "7" -> "Alien"
      [] OTHER -> "b"

\* Media a title search can return
Candidates == {"3", "4", "5", "6", "7"}

RECURSIVE SeqsUpTo(_, _)
SeqsUpTo(S, k) ==
    IF k = 0 THEN {<<>>}
    ELSE LET shorter == SeqsUpTo(S, k - 1)
         IN shorter \cup {Append(s, x) : s \in {t \in shorter : Len(t) = k - 1}, x \in S}

\* Contents a films file can have
Catalogs == SeqsUpTo(Filenames, MaxFiles)

\* Override sets a row of the patch csv can give a file
OverridesFor(f) ==
    IF f = "a.mkv" THEN {[media_id |-> "1", alt_versions |-> "b.mkv,"],
                         [digital |-> FALSE]}
    ELSE IF f = "b.mkv" THEN {[media_id |-> "2", digital |-> FALSE],
                              [media_id |-> "1", is_alt_version |-> TRUE]}
    ELSE {[media_id |-> "1", digital |-> TRUE]}

\* Dicts _read_patch_csv can return
Patches ==
    UNION {{p \in [K -> UNION {OverridesFor(f) : f \in K}] :
                \A f \in K : p[f] \in OverridesFor(f)} : K \in SUBSET Filenames}

AllServed(rem) == \A id \in MovieIds : rem[id] = "ok"

\* States of the remote source: at most one medium is not served, or none is known
Remotes ==
    {r \in [MovieIds -> {"ok", "none", "err"}] :
        Cardinality({id \in MovieIds : r[id] # "ok"}) <= 1}
        \cup {[id \in MovieIds |-> "none"]}

-----------------------------------------------------------------------------
(* The remote source (Cinemagoer) *)

\* get_match(title, candidate title): similarity score
get_match(title, candidate) ==
    IF title = candidate THEN 100
    ELSE IF {title, candidate} = {"Alien", "Aliens"} THEN 91
    ELSE IF {title, candidate} \in {{"Alien", "Alien 3"}, {"Aliens", "Alien 3"}} THEN 83
    ELSE 50

\* Cinemagoer.search_movie(title): raises, or returns the candidates it serves
search_movie_raises(title, rem) == \E id \in MovieIds : MovieTitle(id) = title /\ rem[id] = "err"

search_movie(title, rem) == SelectSeq(MovieOrder, LAMBDA id : rem[id] # "none")

\* Cinemagoer.get_movie(media_id) raises: the id is not known
get_movie_raises(media_id, rem) == media_id \notin MovieIds \/ rem[media_id] = "none"

\* Cinemagoer.update(movie, infoset) raises
update_raises(movie, rem) == rem[movie] = "err"

\* faulty variant: a candidate of equal score replaces the one kept
RECURSIVE best_match_loop_last(_, _, _, _)
best_match_loop_last(title, movies, i, best) ==
    IF i > Len(movies) THEN best
    ELSE LET m == get_match(title, MovieTitle(movies[i]))
         IN best_match_loop_last(title, movies, i + 1,
                IF IsNone(best) \/ m >= Val(best)[2] THEN Some(<<movies[i], m>>) ELSE best)

\* the loop of __get_movie that keeps the first candidate of highest score
RECURSIVE best_match_loop(_, _, _, _)
best_match_loop(title, movies, i, best) ==
    IF i > Len(movies) THEN best
    ELSE LET m == get_match(title, MovieTitle(movies[i]))
         IN best_match_loop(title, movies, i + 1,
                IF IsNone(best) \/ m > Val(best)[2] THEN Some(<<movies[i], m>>) ELSE best)

best_match(title, movies) == Val(best_match_loop(title, movies, 1, None))[1]

-----------------------------------------------------------------------------
(* Field Assembler *)

\* MediaInfo built by _get_media_info from the remote record `movie` and the dict `p`
get_media_info(movie, p) ==
    [media_id       |-> Get(p, "media_id", movie),
     alt_versions   |-> SelectSeq(IF "alt_versions" \in DOMAIN p
                                  THEN SplitComma(p["alt_versions"]) ELSE <<>>,
                                  LAMBDA fname : fname # ""),
     is_alt_version |-> Get(p, "is_alt_version", FALSE),
     digital        |-> Get(p, "digital", digital_default)]

\* Records the remote source serves in detail.  An image url is the sequence of
\* its parts around the marker "_V1_"; a person is <<id, name>>.
Alien ==
    ("ID" :> "3") @@ ("title" :> "Alien")
        @@ ("cover url" :> <<"https://m.example/alien.", "UX32.jpg">>)
        @@ ("genres" :> <<"Horror", "Sci-Fi">>) @@ ("keywords" :> <<"space">>)
        @@ ("year" :> 1979) @@ ("runtimes" :> <<117>>)
        @@ ("cast" :> << <<"244", "Sigourney Weaver">> >>)
        @@ ("director" :> << <<"631", "Ridley Scott">> >>)
        @@ ("plot" :> <<"A crew meets an alien.">>)
        @@ ("color info" :> <<"Color">>) @@ ("rating" :> 85)

Solaris ==
    ("ID" :> "4") @@ ("title" :> "Solaris") @@ ("color info" :> <<"Black and White">>)
        @@ ("plot outline" :> "A station above an ocean.")

Movies == {Alien, Solaris}

\* Values a cell of the patch csv gives a field, as _read_patch_csv leaves them:
\* integers cast, booleans cast, the colour cell left a string
OverrideFields ==
    <<"title", "image_url", "genre", "keywords", "year", "runtime", "stars", "director",
      "description", "colour", "imdb_rating", "disc_index", "physical">>

OverrideValues(field) ==
    CASE field = "title" -> {"Aliens"}
      [] field = "image_url" -> {<<"https://m.example/aliens.jpg">>,
                                 <<"https://m.example/aliens.", "UY99.jpg">>}
      [] field = "genre" -> {"Action, Sci-Fi"}
      [] field = "keywords" -> {"marines"}
      [] field = "year" -> {1986}
      [] field = "runtime" -> {137}
      [] field = "stars" -> {"Tom Skerritt,Ian Holm"}
      [] field = "director" -> {"James Cameron"}
      [] field = "description" -> {"Marines meet aliens."}
      [] field = "colour" -> {"True"}
      [] field = "imdb_rating" -> {84}
      [] field = "disc_index" -> {"2.013"}
      [] field = "physical" -> {TRUE, FALSE}

\* the dicts over the fields from index i on that override at most k of them
RECURSIVE Overrides(_, _)
Overrides(i, k) ==
    IF i > Len(OverrideFields) \/ k = 0 THEN {EmptyDict}
    ELSE Overrides(i + 1, k)
            \cup {(OverrideFields[i] :> v) @@ d :
                        v \in OverrideValues(OverrideFields[i]), d \in Overrides(i + 1, k - 1)}

\* dicts _read_physical_media_csv can return: lower-case title -> disc index
PhysicalMedia == {EmptyDict, ("alien" :> "1.001"), ("aliens" :> "1.002") @@ ("solaris" :> "3.120")}

\* what Cinemagoer.search_person(name) returns: ids of people, best first
PeopleFound == {<<>>, <<"905">>}

\* _get_patched(movie, patch, imdb_key, patch_key, default); no record that
\* occurs holds None under a key
get_patched(movie, p, imdb_key, patch_key, default) ==
    Get(p, patch_key, Get(movie, imdb_key, default))

\* the rewrite of an image url that has text after its marker
image_size(url) ==
    IF Len(url) = 2 /\ url[2] # "" THEN <<url[1], "FMjpg_UX1000_.jpg">> ELSE url

\* [s.strip() for s in value.split(",") if s]
split_strip(value) ==
    LET parts == SelectSeq(SplitComma(value), LAMBDA x : x # "")
    IN [i \in DOMAIN parts |-> Strip(parts[i])]

\* any("color" in item.lower() for item in colour): over the items of a list,
\* or over the characters of a string, none of which contains "color"
any_color(colour, is_str) ==
    IF is_str THEN FALSE
    ELSE \E i \in DOMAIN colour : contains_color(Lower(colour[i]))

\* _make_personinfo for a name string: PersonInfo(_name_to_id(name), name)
make_personinfo(name, people) == <<people[1], name>>

\* the stars or the director of _get_media_info
get_people(movie, p, imdb_key, patch_key, people) ==
    IF patch_key \in DOMAIN p
    THEN LET names == comma_split_by(p[patch_key])
         IN [i \in DOMAIN names |-> make_personinfo(names[i], people)]
    ELSE Get(movie, imdb_key, <<>>)

\* faulty variant: the title looked up as it is written
physical_media_get_cased(physical_media, title) == Get(physical_media, title, "")

\* self._physical_media.get(title.lower(), "")
physical_media_get(physical_media, title) == Get(physical_media, Lower(title), "")

\* _get_media_info over the whole remote record: [out |-> "info", info] or the
\* exception _name_to_id raises when the person search finds nobody
assemble(movie, p, physical_media, people) ==
    IF ("stars" \in DOMAIN p \/ "director" \in DOMAIN p) /\ people = <<>>
    THEN [out |-> "RuntimeError"]
    ELSE LET title == get_patched(movie, p, "title", "title", "")
             colour == get_patched(movie, p, "color info", "colour", <<"Color">>)
             genre == get_patched(movie, p, "genres", "genre", <<>>)
             keywords == get_patched(movie, p, "keywords", "keywords", <<>>)
             disc_index == Get(p, "disc_index", physical_media_get(physical_media, title))
         IN [out |-> "info",
             info |-> get_media_info(movie["ID"], p) @@
                [title       |-> title,
                 image_url   |-> image_size(get_patched(movie, p, "cover url", "image_url", <<"">>)),
                 genre       |-> IF "genre" \in DOMAIN p THEN split_strip(genre) ELSE genre,
                 keywords    |-> IF "keywords" \in DOMAIN p THEN split_strip(keywords)
                                 ELSE keywords,
                 year        |-> Get(p, "year", Get(movie, "year", 0)),
                 runtime     |-> Get(p, "runtime", Get(movie, "runtimes", <<0>>)[1]),
                 stars       |-> get_people(movie, p, "cast", "stars", people),
                 director    |-> get_people(movie, p, "director", "director", people),
                 description |-> IF "description" \in DOMAIN p THEN p["description"]
                                 ELSE IF "plot" \in DOMAIN movie THEN movie["plot"][1]
                                 ELSE Get(movie, "plot outline", ""),
                 colour      |-> IF "colour" \in DOMAIN p THEN any_color(colour, TRUE)
                                 ELSE any_color(colour, FALSE),
                 imdb_rating |-> get_patched(movie, p, "rating", "imdb_rating", 0),
                 disc_index  |-> disc_index,
                 physical    |-> Get(p, "physical", disc_index # "")]]

-----------------------------------------------------------------------------
(* Metadata Resolver *)

\* whether __get_movie stores the detailed record in the cache
caches_movie(info) == ~IsNone(info) /\ "alt_versions" \in DOMAIN Val(info)

\* faulty variant: the cache forgotten by a lookup that stores nothing
get_movie_detail_cache_reset(movie, info, cache, rem) ==
    LET p == IF IsNone(info) THEN EmptyDict ELSE Val(info)
    IN IF update_raises(movie, rem)
       THEN [out |-> "none", cache |-> cache, calls |-> <<"update">>]
       ELSE [out |-> "info", info |-> get_media_info(movie, p),
             cache |-> IF caches_movie(info)
                       THEN cache \cup {Get(p, "media_id", movie)}
                       ELSE {},
             calls |-> <<"update">>]

\* faulty variant: the record cached before its detail is fetched
get_movie_detail_cache_first(movie, info, cache, rem) ==
    LET p == IF IsNone(info) THEN EmptyDict ELSE Val(info)
        cache1 == IF caches_movie(info)
                  THEN cache \cup {Get(p, "media_id", movie)}
                  ELSE cache
    IN IF update_raises(movie, rem)
       THEN [out |-> "none", cache |-> cache1, calls |-> <<"update">>]
       ELSE [out |-> "info", info |-> get_media_info(movie, p), cache |-> cache1,
             calls |-> <<"update">>]

\* the tail of __get_movie, from the detail update on
get_movie_detail(movie, info, cache, rem) ==
    IF update_raises(movie, rem)
    THEN [out |-> "none", cache |-> cache, calls |-> <<"update">>]
    ELSE LET p == IF IsNone(info) THEN EmptyDict ELSE Val(info)
             cache1 == IF caches_movie(info)
                       THEN cache \cup {Get(p, "media_id", movie)}
                       ELSE cache
         IN [out |-> "info", info |-> get_media_info(movie, p), cache |-> cache1,
             calls |-> <<"update">>]

\* the result `r` of the tail, after the remote call `first` that preceded it
after_call(first, r) == [r EXCEPT !.calls = <<first>> \o @]

\* __get_movie(title, patch=info): [out |-> "info" | "none" | "KeyError", info, cache,
\* calls], calls being the calls made to the remote source, in order
get_movie(title, info, cache, rem) ==
    IF ~IsNone(info)
    THEN LET p == Val(info)
         IN IF "media_id" \notin DOMAIN p
            THEN [out |-> "KeyError", cache |-> cache, calls |-> <<>>]
            ELSE IF Get(p, "is_alt_version", FALSE) /\ p["media_id"] \in cache
            THEN [out |-> "info", info |-> get_media_info(p["media_id"], p), cache |-> cache,
                  calls |-> <<>>]
            ELSE IF get_movie_raises(p["media_id"], rem)
            THEN [out |-> "none", cache |-> cache, calls |-> <<"get_movie">>]
            ELSE after_call("get_movie", get_movie_detail(p["media_id"], info, cache, rem))
    ELSE IF search_movie_raises(title, rem)
    THEN [out |-> "none", cache |-> cache, calls |-> <<"search_movie">>]
    ELSE LET movies == search_movie(title, rem)
         IN IF Len(movies) = 0
            THEN [out |-> "none", cache |-> cache, calls |-> <<"search_movie">>]
            ELSE after_call("search_movie",
                            get_movie_detail(best_match(title, movies), info, cache, rem))

-----------------------------------------------------------------------------
(* The store (VisionItem table and its alt_versions relation) and the      *)
(* engine's counters, passed through the persistence operations as one     *)
(* record db = [store, alt, nextPk, waiting, created, err].                *)

\* VisionItem.objects.filter(filename=...)
filter(st, filename) == {r \in st : r.filename = filename}

TheItem(items) == CHOOSE r \in items : TRUE

\* faulty variant: the row kept
delete_nothing(db, item) == db

\* faulty variant: the relation rows removed and the record's own row left
delete_relations_only(db, item) ==
    [db EXCEPT !.alt = {e \in @ : e[1] # item.pk /\ e[2] # item.pk}]

\* item.delete(): the row and the relation rows that reference it
delete(db, item) ==
    [db EXCEPT !.store = @ \ {item},
               !.alt = {e \in @ : e[1] # item.pk /\ e[2] # item.pk}]

\* faulty variant: several matching records taken as one
add_alt_versions_case_any(k) == IF k = 0 THEN "defer" ELSE "link"

\* what _add_alt_versions does with a reference that has k matching records
add_alt_versions_case(k) == IF k = 0 THEN "defer" ELSE IF k > 1 THEN "drop" ELSE "link"

\* the loop of _add_alt_versions over media_info.alt_versions, from index i
RECURSIVE add_alt_versions(_, _, _, _)
add_alt_versions(db, pk, refs, i) ==
    IF i > Len(refs) THEN db
    ELSE LET ref_film == refs[i]
             ref_items == filter(db.store, ref_film)
             what == add_alt_versions_case(Cardinality(ref_items))
             db1 == IF what = "defer"
                    THEN [db EXCEPT !.waiting = Append(@, <<pk, ref_film>>)]
                    ELSE IF what = "drop"
                    THEN db
                    ELSE [db EXCEPT !.alt = @ \cup {<<pk, TheItem(ref_items).pk>>}]
         IN add_alt_versions(db1, pk, refs, i + 1)

\* the VisionItem row _add_to_db builds
new_item(pk, filename, media_info) ==
    [pk             |-> pk,
     filename       |-> filename,
     imdb_id        |-> media_info.media_id,
     digital        |-> media_info.digital,
     is_alt_version |-> media_info.is_alt_version]

\* _add_to_db(filename, media_info)
add_to_db(db, filename, media_info) ==
    LET item == new_item(db.nextPk, filename, media_info)
        db1 == [db EXCEPT !.store = @ \cup {item}, !.nextPk = @ + 1]
        db2 == add_alt_versions(db1, item.pk, media_info.alt_versions, 1)
    IN [db2 EXCEPT !.created = @ + 1]

\* what _check_alt_verions does with a queued reference that has k matching records
check_alt_verions_case(k) == IF k = 0 THEN "warn_none" ELSE IF k > 1 THEN "warn_multiple" ELSE "link"

\* faulty variant: the flag is set on the object and never saved
set_is_alt_version_unsaved(st, ref_item) == st

\* ref_item.is_alt_version = True; ref_item.save()
set_is_alt_version(st, ref_item) ==
    (st \ {ref_item}) \cup {[ref_item EXCEPT !.is_alt_version = TRUE]}

\* the queue as _check_alt_verions leaves it after its loop
drained_queue(waiting) == <<>>

\* the loop of _check_alt_verions from index i.  Adding a relation row for an
\* item whose row was deleted since it was queued violates the foreign key:
\* the loop ends with IntegrityError and the queue is left as it is.
RECURSIVE check_alt_verions(_, _)
check_alt_verions(db, i) ==
    IF i > Len(db.waiting) THEN [db EXCEPT !.waiting = drained_queue(@)]
    ELSE LET pk == db.waiting[i][1]
             ref_film == db.waiting[i][2]
             ref_items == filter(db.store, ref_film)
         IN IF check_alt_verions_case(Cardinality(ref_items)) = "link"
            THEN LET ref_item == TheItem(ref_items)
                     st1 == IF ~ref_item.is_alt_version
                            THEN set_is_alt_version(db.store, ref_item)
                            ELSE db.store
                 IN IF pk \notin {r.pk : r \in st1}
                    THEN [db EXCEPT !.store = st1, !.err = "IntegrityError"]
                    ELSE check_alt_verions(
                            [db EXCEPT !.store = st1, !.alt = @ \cup {<<pk, ref_item.pk>>}],
                            i + 1)
            ELSE check_alt_verions(db, i + 1)

\* the value of getattr(item, item_key) compared with the patch value: the
\* alt_versions attribute is a related manager, which equals no patch value
field_equal(item, key, value) ==
    LET item_key == patch_to_model_map(key)
    IN IF item_key = "alt_versions" THEN FALSE ELSE item[item_key] = value

\* _item_patch_equal(item, patch)
item_patch_equal(item, p) == \A key \in DOMAIN p : field_equal(item, key, p[key])

-----------------------------------------------------------------------------
(* Readers *)

\* Patch csv files.  A file is its header (the column names), its rows (each
\* the texts of its cells, as many as the header has) and whether its last line
\* ends with a newline.  readlines() keeps the newline of a line, so the raw
\* value of a cell is <<text, whether a newline follows it>>.
Headers ==
    {<<"filename", "digital">>, <<"digital", "filename">>,
     <<"filename", "title">>, <<"title", "filename">>,
     <<"title", "digital">>}

Cells(name) ==
    CASE name = "filename" -> {"a.mkv", "b.mkv", ""}
      [] name = "digital" -> {"true", "False", "maybe", ""}
      [] name = "title" -> {"X", "Y"}

RowsFor(header) ==
    {row \in [DOMAIN header -> UNION {Cells(header[j]) : j \in DOMAIN header}] :
        \A j \in DOMAIN header : row[j] \in Cells(header[j])}

PatchFiles ==
    UNION {[header : {h}, rows : SeqsUpTo(RowsFor(h), MaxRows), final_newline : BOOLEAN] :
                h \in Headers}

\* the type _model_field_type_map gives a column: the boolean fields of VisionItem
model_field_type(name) ==
    IF name \in {"digital", "physical", "bonus_features", "is_alt_version"} THEN "bool"
    ELSE "str"

\* _format_patch_value(value, name) raises ValueError
format_patch_value_raises(value, name) ==
    model_field_type(patch_to_model_map(name)) = "bool" /\ Lower(value) \notin {"true", "false"}

\* _format_patch_value(value, name)
format_patch_value(value, name) ==
    IF model_field_type(patch_to_model_map(name)) = "bool" THEN Lower(value) = "true"
    ELSE value

\* header.index(key): 0 when the header has no such column
header_index(header, key) ==
    IF \E j \in DOMAIN header : header[j] = key
    THEN CHOOSE j \in DOMAIN header : header[j] = key /\ \A l \in 1 .. (j - 1) : header[l] # key
    ELSE 0

\* the raw value of cell j of row i
raw_value(file, i, j) ==
    <<file.rows[i][j],
      j = Len(file.rows[i]) /\ (i < Len(file.rows) \/ file.final_newline)>>

\* bool(value) of a raw value
truthy(raw) == raw[1] # "" \/ raw[2]

\* `key in patch` for the raw key: the keys of patch are stripped strings
key_in_patch(raw, p) == ~raw[2] /\ raw[1] \in DOMAIN p

\* the name a column has in the dict of its row
dct_key(name) == IF name = "imdb_id" THEN "media_id" ELSE name

\* the dict of row i: a value for every cell but the key's that is not empty
row_dct(file, key_idx, i) ==
    LET row == file.rows[i]
        cols == {j \in DOMAIN row \ {key_idx} : truthy(raw_value(file, i, j))}
    IN [name \in {dct_key(file.header[j]) : j \in cols} |->
            LET j == CHOOSE l \in cols : dct_key(file.header[l]) = name
            IN format_patch_value(Strip(row[j]), file.header[j])]

\* a cell of row i cannot be cast
row_raises(file, key_idx, i) ==
    \E j \in DOMAIN file.rows[i] \ {key_idx} :
        /\ truthy(raw_value(file, i, j))
        /\ format_patch_value_raises(Strip(file.rows[i][j]), file.header[j])

\* current.update(dct), or patch[key] = dct for a new key
patch_update(p, key, dct) ==
    IF key \in DOMAIN p THEN (key :> (dct @@ p[key])) @@ p ELSE (key :> dct) @@ p

\* the loop of _read_patch_csv over the lines, from row i
RECURSIVE read_patch_rows(_, _, _, _)
read_patch_rows(file, key_idx, i, p) ==
    IF i > Len(file.rows) THEN [out |-> "ok", patch |-> p]
    ELSE LET key == raw_value(file, i, key_idx)
         IN IF Strip(key[1]) = "" THEN read_patch_rows(file, key_idx, i + 1, p)
            ELSE IF key_in_patch(key, p) THEN read_patch_rows(file, key_idx, i + 1, p)
            ELSE IF row_raises(file, key_idx, i) THEN [out |-> "ValueError"]
            ELSE read_patch_rows(file, key_idx, i + 1,
                                 patch_update(p, Strip(key[1]), row_dct(file, key_idx, i)))

\* _read_patch_csv(patch_csv, key): [out |-> "ok", patch] or [out |-> "ValueError"]
read_patch_csv(file, key) ==
    IF header_index(file.header, key) = 0 THEN [out |-> "ValueError"]
    ELSE read_patch_rows(file, header_index(file.header, key), 1, EmptyDict)

\* Lines of a films file as iterating the file object gives them
RawLines == {"a.mkv\n", " b.mkv \n", "A.MKV\n", "notes.txt\n", "c\n", "\n"}

\* faulty variant: the lines kept as they are read
read_films_file_unstripped(lines) == SelectSeq(lines, LAMBDA f : Suffix(Strip(f)) \in ext)

\* _read_films_file: the stripped lines whose suffix is a video extension, in order
read_films_file(lines) ==
    LET kept == SelectSeq(lines, LAMBDA f : Suffix(Strip(f)) \in ext)
    IN [i \in DOMAIN kept |-> Strip(kept[i])]

\* [Path(file) for file in patch.keys()]
patch_keys(p) == SelectSeq(FileOrder, LAMBDA f : f \in DOMAIN p)

\* patch.get(str(file), None)
patch_get(p, file) == IF file \in DOMAIN p THEN Some(p[file]) ELSE None

-----------------------------------------------------------------------------
(* One iteration of the loops of _populate and _update *)

\* what an iteration leaves: the store, the cache, how it ended, the exception
\* that left the loop ("" when none) and the operations it made, in order
Outcome(db, cache, what, error, made) ==
    [db |-> db, cache |-> cache, last |-> what, err |-> error, ops |-> made]

\* faulty variant: the comparison off by one
ambiguous_off_by_one(items) == Cardinality(items) > 2

\* len(item) > 1 in _update
ambiguous(items) == Cardinality(items) > 1

\* faulty variant: a record with an override is never skipped
update_skip_no_override(items, info) == Cardinality(items) = 1 /\ IsNone(info)

\* the `skip` flag of _update
update_skip(items, info) ==
    /\ Cardinality(items) = 1
    /\ (IsNone(info) \/ item_patch_equal(TheItem(items), Val(info)))

\* faulty variant: the override's digital value kept for a bare catalog name
force_digital_never(file, media_info) == media_info

\* media_info["digital"] = False for a file reference without a suffix
force_digital(file, media_info) ==
    IF Suffix(file) = "" THEN [media_info EXCEPT !.digital = FALSE] ELSE media_info

\* faulty variant: a failed lookup counted
update_count_failed(c, what) ==
    IF what \in {"created", "recreated", "no_result"} THEN c + 1 ELSE c

\* faulty variant: the increment moved out of the `if not skip` block
update_count_every_file(c, what) == c + 1

\* `count` of _update after an iteration that ended as `what`
update_count(c, what) == IF what \in {"created", "recreated"} THEN c + 1 ELSE c

\* body of the loop of _update for `file`
update_file(db, cache, file, p, rem) ==
    LET info == patch_get(p, file)
        item == filter(db.store, file)
    IN IF ambiguous(item)
       THEN Outcome(db, cache, "multiple", "", <<>>)
       ELSE IF update_skip(item, info)
       THEN Outcome(db, cache, "skip", "", <<>>)
       ELSE LET exists == Cardinality(item) = 1
                db1 == IF exists THEN delete(db, TheItem(item)) ELSE db
                deleted == IF exists THEN <<"delete">> ELSE <<>>
                r == get_movie(Stem(file), info, cache, rem)
            IN IF r.out = "KeyError"
               THEN Outcome(db1, r.cache, "raised", "KeyError", deleted \o r.calls)
               ELSE IF r.out = "none"
               THEN Outcome(db1, r.cache, "no_result", "", deleted \o r.calls)
               ELSE Outcome(add_to_db(db1, file, force_digital(file, r.info)), r.cache,
                            IF exists THEN "recreated" ELSE "created", "",
                            deleted \o r.calls \o <<"insert">>)

\* body of the loop of _populate for `file`
populate_file(db, cache, file, p, rem) ==
    LET info == patch_get(p, file)
        r == get_movie(Stem(file), info, cache, rem)
    IN IF r.out = "KeyError"
       THEN Outcome(db, r.cache, "raised", "KeyError", r.calls)
       ELSE IF r.out = "none"
       THEN Outcome(db, r.cache, "no_result", "", r.calls)
       ELSE Outcome(add_to_db(db, file, r.info), r.cache, "created", "",
                    r.calls \o <<"insert">>)

\* populate's guard on its arguments
populate_args_missing(films, csv) == IsNone(films)

\* faulty variant: the guard left out
update_args_never_missing(films, csv) == FALSE

\* update's guard on its arguments
update_args_missing(films, csv) == IsNone(films) /\ IsNone(csv)

\* the exception open() or _read_patch_csv raises for the patch csv ("" when none)
read_patch_csv_error(dsk) ==
    IF dsk.patch = "missing" THEN "OSError"
    ELSE IF dsk.patch \in {"no_key", "bad_value"} THEN "ValueError"
    ELSE ""

\* the exception open() raises for the films file ("" when none)
read_films_file_error(dsk) == IF dsk.films = "missing" THEN "OSError" ELSE ""

\* populate reads the films file, then the patch csv if one is given
populate_read_error(films, csv, dsk) ==
    IF read_films_file_error(dsk) # "" THEN read_films_file_error(dsk)
    ELSE IF ~IsNone(csv) THEN read_patch_csv_error(dsk)
    ELSE ""

\* faulty variant: the input files taken as read
update_read_error_unseen(films, csv, dsk) == ""

\* update reads the patch csv if one is given, then the films file if one is given
update_read_error(films, csv, dsk) ==
    IF ~IsNone(csv) /\ read_patch_csv_error(dsk) # "" THEN read_patch_csv_error(dsk)
    ELSE IF ~IsNone(films) THEN read_films_file_error(dsk)
    ELSE ""

\* the target files of update
update_files(films, p) ==
    IF ~IsNone(films) THEN read_films_file(Val(films)) ELSE patch_keys(p)

\* faulty variant: the union left out, the catalog alone
make_combined_dict_catalog_only(films, csv) ==
    LET names == IF IsNone(films) THEN {}
                 ELSE {read_films_file(Val(films))[i] : i \in DOMAIN read_films_file(Val(films))}
    IN [k \in names |-> EmptyDict]

\* make_combined_dict(films_txt, patch_csv): file name -> override set, over the
\* file names of the catalog and of the override file
make_combined_dict(films, csv) ==
    LET names == IF IsNone(films) THEN {}
                 ELSE {read_films_file(Val(films))[i] : i \in DOMAIN read_films_file(Val(films))}
        p == IF IsNone(csv) THEN EmptyDict ELSE Val(csv)
    IN [k \in names \cup DOMAIN p |-> IF k \in DOMAIN p THEN p[k] ELSE EmptyDict]

\* value _populate hands back to populate: the function has no return statement
populate_return(db) == None

\* value _update hands back to update
update_return(c) == Some(c)

-----------------------------------------------------------------------------
(* State machine *)

Db == [store |-> store, alt |-> alt, nextPk |-> nextPk,
       waiting |-> waiting_for_alt_versions, created |-> created_item_count, err |-> ""]

SetDb(db) ==
    /\ store' = db.store
    /\ alt' = db.alt
    /\ nextPk' = db.nextPk
    /\ waiting_for_alt_versions' = db.waiting
    /\ created_item_count' = db.created

Idle == pc \in {"idle", "done", "raised"}

\* nothing applied on its own
NotApplied == [op |-> "none"]

\* States of the input files.  A file that cannot be opened or parsed has no
\* contents of interest.
Disks == [films : {"ok", "missing"}, patch : {"ok", "missing", "no_key", "bad_value"}]

\* a new engine over an empty store, before any call
InitEngine ==
    /\ store = {}
    /\ alt = {}
    /\ nextPk = 1
    /\ movie_cache = {}
    /\ waiting_for_alt_versions = <<>>
    /\ created_item_count = 0
    /\ films_txt = None
    /\ patch_csv = None
    /\ mode = "idle"
    /\ pc = "idle"
    /\ files = <<>>
    /\ patch = EmptyDict
    /\ n = 0
    /\ count = 0
    /\ ret = None
    /\ err = ""
    /\ last = ""
    /\ reads = 0
    /\ runs = 0
    /\ call = [store |-> {}, alt |-> {}, nextPk |-> 1, cache |-> {}, waiting |-> <<>>]
    /\ combined = None
    /\ prev = [mode |-> "idle", pc |-> "idle", films_txt |-> None, patch_csv |-> None]
    /\ ops = <<>>
    /\ drains = 0

Init ==
    /\ InitEngine
    /\ disk \in Disks
    /\ films_file \in IF disk.films = "ok" THEN Catalogs ELSE {<<>>}
    /\ patch_file \in IF disk.patch = "ok" THEN Patches ELSE {EmptyDict}
    /\ remote \in Remotes
    /\ applied = NotApplied

\* the current call and how it ended, for the history
ThisCall == [mode |-> mode, pc |-> pc, films_txt |-> films_txt, patch_csv |-> patch_csv]

\* entry of an operation: the arguments passed and the bookkeeping every call does
Enter(m) ==
    /\ Idle
    /\ films_txt' \in {None, Some(films_file)}
    /\ patch_csv' \in {None, Some(patch_file)}
    /\ runs < MaxRuns
    /\ runs' = runs + 1
    /\ mode' = m
    /\ n' = 0
    /\ count' = 0
    /\ ret' = None
    /\ last' = ""
    /\ ops' = <<>>
    /\ drains' = 0
    /\ call' = [store |-> store, alt |-> alt, nextPk |-> nextPk, cache |-> movie_cache,
                 waiting |-> waiting_for_alt_versions]
    /\ prev' = IF mode = "idle" THEN prev ELSE ThisCall
    /\ UNCHANGED <<store, alt, nextPk, movie_cache, waiting_for_alt_versions,
                   created_item_count, films_file, patch_file, remote, combined,
                   applied, disk>>

\* PopulateDatabase.__init__: a new engine object over the same store
NewEngine ==
    /\ pc \in {"done", "raised"}
    /\ movie_cache' = {}
    /\ waiting_for_alt_versions' = <<>>
    /\ created_item_count' = 0
    /\ prev' = ThisCall
    /\ mode' = "idle"
    /\ pc' = "idle"
    /\ UNCHANGED <<store, alt, nextPk, films_file, patch_file, films_txt, patch_csv, remote,
                   files, patch, n,
                   count, ret, err, last, reads, runs, call, combined, applied, ops, disk, drains>>

\* populate(films_txt, patch_csv) up to the call of _populate
PopulateCall ==
    /\ Enter("populate")
    /\ IF populate_args_missing(films_txt', patch_csv')
       THEN /\ pc' = "raised"
            /\ err' = "ValueError"
            /\ reads' = 0
            /\ UNCHANGED <<files, patch>>
       ELSE IF populate_read_error(films_txt', patch_csv', disk) # ""
       THEN /\ pc' = "raised"
            /\ err' = populate_read_error(films_txt', patch_csv', disk)
            /\ reads' = IF read_films_file_error(disk) # "" THEN 0 ELSE 1
            /\ UNCHANGED <<files, patch>>
       ELSE /\ pc' = "loop"
            /\ err' = ""
            /\ files' = read_films_file(Val(films_txt'))
            /\ patch' = IF IsNone(patch_csv') THEN EmptyDict ELSE Val(patch_csv')
            /\ reads' = IF IsNone(patch_csv') THEN 1 ELSE 2

\* update(films_txt, patch_csv) up to the call of _update
UpdateCall ==
    /\ Enter("update")
    /\ IF update_args_missing(films_txt', patch_csv')
       THEN /\ pc' = "raised"
            /\ err' = "ValueError"
            /\ reads' = 0
            /\ UNCHANGED <<files, patch>>
       ELSE IF update_read_error(films_txt', patch_csv', disk) # ""
       THEN /\ pc' = "raised"
            /\ err' = update_read_error(films_txt', patch_csv', disk)
            /\ reads' = IF ~IsNone(patch_csv') /\ read_patch_csv_error(disk) = ""
                         THEN 1 ELSE 0
            /\ UNCHANGED <<files, patch>>
       ELSE LET p == IF IsNone(patch_csv') THEN EmptyDict ELSE Val(patch_csv')
            IN /\ pc' = "loop"
               /\ err' = ""
               /\ patch' = p
               /\ files' = update_files(films_txt', p)
               /\ reads' = (IF IsNone(patch_csv') THEN 0 ELSE 1)
                           + (IF IsNone(films_txt') THEN 0 ELSE 1)

\* what a loop iteration with outcome u leaves behind
Step(u) ==
    /\ SetDb(u.db)
    /\ movie_cache' = u.cache
    /\ count' = IF mode = "update" THEN update_count(count, u.last) ELSE count
    /\ last' = u.last
    /\ ops' = u.ops
    /\ err' = u.err
    /\ IF u.err = ""
       THEN /\ n' = n + 1
            /\ pc' = pc
       ELSE /\ n' = n
            /\ pc' = "raised"
    /\ UNCHANGED <<films_file, patch_file, films_txt, patch_csv, remote, mode, files,
                   patch, ret, reads, runs, call, prev, combined, applied, disk, drains>>

\* one iteration of the loop of _populate
PopulateStep ==
    /\ mode = "populate"
    /\ pc = "loop"
    /\ n < Len(files)
    /\ Step(populate_file(Db, movie_cache, files[n + 1], patch, remote))

\* one iteration of the loop of _update
UpdateStep ==
    /\ mode = "update"
    /\ pc = "loop"
    /\ n < Len(files)
    /\ Step(update_file(Db, movie_cache, files[n + 1], patch, remote))

\* the end of _populate: _check_alt_verions, then the return
PopulateFinish ==
    /\ mode = "populate"
    /\ pc = "loop"
    /\ n = Len(files)
    /\ drains' = drains + 1
    /\ LET db == check_alt_verions(Db, 1)
       IN /\ SetDb(db)
          /\ err' = db.err
          /\ pc' = IF db.err = "" THEN "done" ELSE "raised"
          /\ ret' = IF db.err = "" THEN populate_return(db) ELSE ret
    /\ UNCHANGED <<movie_cache, films_file, patch_file, films_txt, patch_csv, remote,
                   mode, files, patch, n, count, last, reads, runs, call, prev, combined,
                   applied, ops, disk>>

\* the end of _update: the return
UpdateFinish ==
    /\ mode = "update"
    /\ pc = "loop"
    /\ n = Len(files)
    /\ pc' = "done"
    /\ ret' = update_return(count)
    /\ UNCHANGED <<store, alt, nextPk, movie_cache, waiting_for_alt_versions,
                   created_item_count, films_file, patch_file, films_txt, patch_csv,
                   remote, mode, files, patch, n, count, err, last, reads, runs, call,
                   prev, combined, applied, ops, disk, drains>>

Next ==
    \/ NewEngine
    \/ PopulateCall
    \/ UpdateCall
    \/ PopulateStep
    \/ UpdateStep
    \/ PopulateFinish
    \/ UpdateFinish

Spec == Init /\ [][Next]_vars

-----------------------------------------------------------------------------
(* make_combined_dict applied to the input files *)

CombineInit ==
    /\ Init
    /\ disk = [films |-> "ok", patch |-> "ok"]
    /\ AllServed(remote)

CombineCall ==
    /\ pc = "idle"
    /\ films_txt' \in {None, Some(films_file)}
    /\ patch_csv' \in {None, Some(patch_file)}
    /\ combined' = Some(make_combined_dict(films_txt', patch_csv'))
    /\ mode' = "combine"
    /\ pc' = "done"
    /\ UNCHANGED <<store, alt, nextPk, movie_cache, waiting_for_alt_versions,
                   created_item_count, films_file, patch_file, remote, files, patch, n,
                   count, ret, err, last, reads, runs, call, prev, applied, ops, disk, drains>>

CombineNext == CombineCall

CombineSpec == CombineInit /\ [][CombineNext]_vars

-----------------------------------------------------------------------------
(* _get_media_info applied to a remote record and an override set *)

AssembleInit ==
    /\ InitEngine
    /\ disk = [films |-> "ok", patch |-> "ok"]
    /\ films_file = <<>>
    /\ patch_file = EmptyDict
    /\ remote = [id \in MovieIds |-> "ok"]
    /\ applied \in {[op |-> "get_media_info", movie |-> m, patch |-> p,
                       physical_media |-> pm, people |-> pe, out |-> None] :
                        m \in Movies, p \in Overrides(1, MaxOverrides),
                        pm \in PhysicalMedia, pe \in PeopleFound}

AssembleCall ==
    /\ applied.op = "get_media_info"
    /\ IsNone(applied.out)
    /\ applied' = [applied EXCEPT !.out = Some(assemble(applied.movie, applied.patch,
                                                     applied.physical_media,
                                                     applied.people))]
    /\ UNCHANGED <<store, alt, nextPk, movie_cache, waiting_for_alt_versions,
                   created_item_count, films_file, patch_file, films_txt, patch_csv,
                   remote, mode, pc, files, patch, n, count, ret, err, last, reads, runs,
                   call, prev, combined, ops, disk, drains>>

AssembleNext == AssembleCall

AssembleSpec == AssembleInit /\ [][AssembleNext]_vars

-----------------------------------------------------------------------------
(* The best-match loop of __get_movie applied to a list of candidates *)

MatchInit ==
    /\ InitEngine
    /\ disk = [films |-> "ok", patch |-> "ok"]
    /\ films_file = <<>>
    /\ patch_file = EmptyDict
    /\ remote = [id \in MovieIds |-> "ok"]
    /\ applied \in {[op |-> "best_match", title |-> t, movies |-> ms, out |-> None] :
                        t \in {"Alien", "Aliens"},
                        ms \in SeqsUpTo(Candidates, MaxCandidates) \ {<<>>}}

MatchCall ==
    /\ applied.op = "best_match"
    /\ IsNone(applied.out)
    /\ applied' = [applied EXCEPT !.out = Some(best_match(applied.title, applied.movies))]
    /\ UNCHANGED <<store, alt, nextPk, movie_cache, waiting_for_alt_versions,
                   created_item_count, films_file, patch_file, films_txt, patch_csv,
                   remote, mode, pc, files, patch, n, count, ret, err, last, reads, runs,
                   call, prev, combined, ops, disk, drains>>

MatchNext == MatchCall

MatchSpec == MatchInit /\ [][MatchNext]_vars

-----------------------------------------------------------------------------
(* _read_patch_csv applied to a patch csv *)

ReadPatchInit ==
    /\ InitEngine
    /\ disk = [films |-> "ok", patch |-> "ok"]
    /\ films_file = <<>>
    /\ patch_file = EmptyDict
    /\ remote = [id \in MovieIds |-> "ok"]
    /\ applied \in {[op |-> "read_patch_csv", file |-> f, out |-> None] : f \in PatchFiles}

ReadPatchCall ==
    /\ applied.op = "read_patch_csv"
    /\ IsNone(applied.out)
    /\ applied' = [applied EXCEPT !.out = Some(read_patch_csv(applied.file, "filename"))]
    /\ UNCHANGED <<store, alt, nextPk, movie_cache, waiting_for_alt_versions,
                   created_item_count, films_file, patch_file, films_txt, patch_csv,
                   remote, mode, pc, files, patch, n, count, ret, err, last, reads, runs,
                   call, prev, combined, ops, disk, drains>>

ReadPatchNext == ReadPatchCall

ReadPatchSpec == ReadPatchInit /\ [][ReadPatchNext]_vars

-----------------------------------------------------------------------------
(* _read_films_file applied to the lines of a films file *)

ReadFilmsInit ==
    /\ InitEngine
    /\ disk = [films |-> "ok", patch |-> "ok"]
    /\ films_file = <<>>
    /\ patch_file = EmptyDict
    /\ remote = [id \in MovieIds |-> "ok"]
    /\ applied \in {[op |-> "read_films_file", lines |-> ls, out |-> None] :
                        ls \in SeqsUpTo(RawLines, MaxLines)}

ReadFilmsCall ==
    /\ applied.op = "read_films_file"
    /\ IsNone(applied.out)
    /\ applied' = [applied EXCEPT !.out = Some(read_films_file(applied.lines))]
    /\ UNCHANGED <<store, alt, nextPk, movie_cache, waiting_for_alt_versions,
                   created_item_count, films_file, patch_file, films_txt, patch_csv,
                   remote, mode, pc, files, patch, n, count, ret, err, last, reads, runs,
                   call, prev, combined, ops, disk, drains>>

ReadFilmsNext == ReadFilmsCall

ReadFilmsSpec == ReadFilmsInit /\ [][ReadFilmsNext]_vars

-----------------------------------------------------------------------------
(* _check_alt_verions at the end of populate, on an engine and a store that *)
(* earlier runs have left: records for a.mkv and b.mkv, each possibly      *)
(* twice, and queued entries of a.mkv records (whose override lists b.mkv)  *)
(* that are stored or were deleted by an update since they were queued.     *)

StoredItems ==
    {[pk |-> 1, filename |-> "a.mkv", imdb_id |-> "1", digital |-> TRUE,
      is_alt_version |-> FALSE],
     [pk |-> 2, filename |-> "a.mkv", imdb_id |-> "1", digital |-> TRUE,
      is_alt_version |-> FALSE],
     [pk |-> 3, filename |-> "b.mkv", imdb_id |-> "2", digital |-> TRUE,
      is_alt_version |-> FALSE],
     [pk |-> 4, filename |-> "b.mkv", imdb_id |-> "1", digital |-> TRUE,
      is_alt_version |-> TRUE]}

QueuedEntries == {<<1, "b.mkv">>, <<2, "b.mkv">>}

DrainInit ==
    /\ store \in SUBSET StoredItems
    /\ alt = {}
    /\ nextPk = 5
    /\ movie_cache = {}
    /\ waiting_for_alt_versions \in SeqsUpTo(QueuedEntries, MaxQueue)
    /\ created_item_count = 4
    /\ disk = [films |-> "ok", patch |-> "ok"]
    /\ films_file = <<>>
    /\ patch_file = EmptyDict
    /\ films_txt = Some(films_file)
    /\ patch_csv = None
    /\ remote = [id \in MovieIds |-> "ok"]
    /\ mode = "populate"
    /\ pc = "loop"
    /\ files = <<>>
    /\ patch = EmptyDict
    /\ n = 0
    /\ count = 0
    /\ ret = None
    /\ err = ""
    /\ last = ""
    /\ reads = 1
    /\ runs = 1
    /\ call = [store |-> store, alt |-> alt, nextPk |-> nextPk, cache |-> movie_cache,
                waiting |-> waiting_for_alt_versions]
    /\ combined = None
    /\ prev = [mode |-> "update", pc |-> "done", films_txt |-> None, patch_csv |-> None]
    /\ ops = <<>>
    /\ drains = 0
    /\ applied = NotApplied

DrainNext == PopulateFinish

DrainSpec == DrainInit /\ [][DrainNext]_vars

-----------------------------------------------------------------------------
(* _add_refs applied to the records of successive creations.  A table is the
   sequence of its rows <<pk, name>>; the primary key of a genre or a keyword
   is its name, that of a person the external id. *)

GenreLists == {<<>>, <<"Horror">>, <<"Horror", "Sci-Fi">>, <<"Sci-Fi", "Sci-Fi">>}
KeywordLists == {<<>>, <<"space">>}
DirectorLists == {<<>>, << <<"631", "Ridley Scott">> >>, << <<"244", "Sigourney Weaver">> >>}
StarLists ==
    {<<>>, << <<"244", "Sigourney Weaver">> >>,
     << <<"244", "S. Weaver">>, <<"631", "Ridley Scott">> >>}

\* the four lists of a MediaInfo that _add_refs reads
RefInfos ==
    [genre : GenreLists, keywords : KeywordLists, director : DirectorLists,
     stars : StarLists]

\* the names field_map is iterated by, the tuple ("director", "stars") expanded
field_names == <<"genre", "keywords", "director", "stars">>

\* the table of the model class field_map gives a name
model_class(name) == IF name \in {"director", "stars"} THEN "person" ELSE name

\* the key of _created_item_count a creation under `name` increments
count_key(name) == IF name \in {"director", "stars"} THEN "person" ELSE name

\* the key and the row of a value: a PersonInfo gives its id and name
ref_pk(name, value) == IF model_class(name) = "person" THEN value[1] ELSE value
ref_row(name, value) == IF model_class(name) = "person" THEN value ELSE <<value, value>>

\* faulty variant: every lookup by key reports that no entity exists
does_not_exist_always(table, pk) == TRUE

\* model_class.objects.get(pk=value) raises ObjectDoesNotExist
does_not_exist(table, pk) == \A i \in DOMAIN table : table[i][1] # pk

\* m.save() of an instance made with a key: the row with that key is
\* rewritten, or a new row is inserted
model_save(table, row) ==
    IF \E i \in DOMAIN table : table[i][1] = row[1]
    THEN [i \in DOMAIN table |-> IF table[i][1] = row[1] THEN row ELSE table[i]]
    ELSE Append(table, row)

\* the body of the innermost loop of _add_refs for one value of the list `name`
add_ref(st, item, name, value) ==
    LET t == model_class(name)
        missing == does_not_exist(st.tables[t], ref_pk(name, value))
    IN [st EXCEPT !.tables[t] = IF missing THEN model_save(@, ref_row(name, value)) ELSE @,
                  !.count[count_key(name)] = IF missing THEN @ + 1 ELSE @,
                  !.links = @ \cup {<<item, name, ref_pk(name, value)>>}]

\* the values of the list `name`, each with the name of its list
named_values(media_info, name) ==
    [i \in DOMAIN media_info[name] |-> [name |-> name, value |-> media_info[name][i]]]

\* the values _add_refs visits, in the order it visits them
ref_values(media_info) ==
    named_values(media_info, field_names[1]) \o named_values(media_info, field_names[2])
        \o named_values(media_info, field_names[3]) \o named_values(media_info, field_names[4])

RECURSIVE add_refs_from(_, _, _, _)
add_refs_from(st, item, refs, i) ==
    IF i > Len(refs) THEN st
    ELSE add_refs_from(add_ref(st, item, refs[i].name, refs[i].value), item, refs, i + 1)

\* _add_refs(item, media_info)
add_refs(st, item, media_info) == add_refs_from(st, item, ref_values(media_info), 1)

RefsInit ==
    /\ InitEngine
    /\ disk = [films |-> "ok", patch |-> "ok"]
    /\ films_file = <<>>
    /\ patch_file = EmptyDict
    /\ remote = [id \in MovieIds |-> "ok"]
    /\ applied = [op |-> "add_refs",
                  tables |-> [genre |-> <<>>, keywords |-> <<>>, person |-> <<>>],
                  count |-> [genre |-> 0, keywords |-> 0, person |-> 0],
                  links |-> {},
                  done |-> 0,
                  info |-> None]

\* _add_refs called by the next record creation
RefsCall ==
    /\ applied.op = "add_refs"
    /\ applied.done < MaxCreations
    /\ \E media_info \in RefInfos :
          applied' = [add_refs(applied, applied.done + 1, media_info)
                        EXCEPT !.done = @ + 1, !.info = Some(media_info)]
    /\ UNCHANGED <<store, alt, nextPk, movie_cache, waiting_for_alt_versions,
                   created_item_count, films_file, patch_file, films_txt, patch_csv,
                   remote, mode, pc, files, patch, n, count, ret, err, last, reads, runs,
                   call, prev, combined, ops, disk, drains>>

RefsNext == RefsCall

RefsSpec == RefsInit /\ [][RefsNext]_vars

-----------------------------------------------------------------------------
(* Properties *)

UpdateDone == mode = "update" /\ pc = "done"
PopulateDone == mode = "populate" /\ pc = "done"

\* records inserted since the current call began
Inserted == nextPk - call.nextPk

\* records the current call created that are still in the store
CreatedBy(filename) == {r \in filter(store, filename) : r.pk >= call.nextPk}

\* the override of `file` lists `ref` as an alternate version
ListsAlt(file, ref) ==
    /\ file \in DOMAIN patch
    /\ "alt_versions" \in DOMAIN patch[file]
    /\ \E i \in DOMAIN SplitComma(patch[file]["alt_versions"]) :
            SplitComma(patch[file]["alt_versions"])[i] = ref

Occurrences(seq, x) == Cardinality({i \in DOMAIN seq : seq[i] = x})

AllLookupsSucceed == AllServed(remote)

\* C1: a second update in succession with the same inputs and the same remote
\* source returns 0 and neither deletes nor inserts any record.
C1_UpdateIdempotent ==
    (/\ UpdateDone
     /\ prev.mode = "update"
     /\ prev.pc = "done"
     /\ prev.films_txt = films_txt
     /\ prev.patch_csv = patch_csv)
        => (ret = Some(0) /\ store = call.store /\ alt = call.alt)

\* C2: when update reaches a file name that two or more records share, the
\* iteration warns, deletes and inserts nothing, leaves the count alone and the
\* loop goes on to the next file.
C2_AmbiguitySafety ==
    [][(mode = "update" /\ pc = "loop" /\ n < Len(files)
            /\ Cardinality(filter(store, files[n + 1])) >= 2)
        => (/\ last' = "multiple"
            /\ store' = store
            /\ alt' = alt
            /\ nextPk' = nextPk
            /\ count' = count
            /\ n' = n + 1
            /\ pc' = "loop")]_vars

C2_Witness ==
    /\ mode = "update"
    /\ last = "multiple"
    /\ Cardinality(filter(store, files[n])) >= 2
    /\ n < Len(files)

\* the pairs of catalog entries C3 is about: A before B, A's override lists B,
\* and the run created a record for each
C3_Pair(i, j) ==
    /\ i < j
    /\ ListsAlt(files[i], files[j])
    /\ CreatedBy(files[i]) # {}
    /\ CreatedBy(files[j]) # {}

C3_Linked(i, j) ==
    \A a \in CreatedBy(files[i]) :
        \E b \in filter(store, files[j]) : <<a.pk, b.pk>> \in alt /\ b.is_alt_version

C4_QueueEmptyAtEnd == pc = "done" => waiting_for_alt_versions = <<>>

\* C5: no error in processing one file ends the run while files remain: a run
\* ends early only with a configuration error.
C5_NoAbort == (pc = "raised" /\ n < Len(files)) => err \in {"ValueError", "OSError"}

\* C6: update returns the number of records inserted during the run.
C6_UpdateReturn == UpdateDone => ret = Some(Inserted)

C6_Witness ==
    /\ UpdateDone
    /\ Inserted >= 1
    /\ Inserted < Len(files)
    /\ ret = Some(Inserted)

\* C7: populate returns the number of records the run inserted.
C7_PopulateReturn == PopulateDone => ret = Some(Inserted)

\* C8: update without a films file and without a patch file, and populate
\* without a films file, raise before any file is read and leave the store, the
\* cache and the deferred queue as they were.
C8_MissingArguments ==
    ((mode = "update" /\ IsNone(films_txt) /\ IsNone(patch_csv))
        \/ (mode = "populate" /\ IsNone(films_txt)))
    => (/\ pc = "raised"
        /\ err = "ValueError"
        /\ reads = 0
        /\ store = call.store
        /\ alt = call.alt
        /\ movie_cache = call.cache
        /\ waiting_for_alt_versions = call.waiting)

C8_Witness ==
    /\ mode = "update"
    /\ IsNone(films_txt)
    /\ IsNone(patch_csv)
    /\ pc = "raised"
    /\ store # {}

\* the file names of the catalog and those only the override file names
CatalogNames == {files[i] : i \in DOMAIN files}
CatalogFileNames == {Val(films_txt)[i] : i \in DOMAIN Val(films_txt)} \cap
                        {f \in Filenames : Suffix(f) \in ext}
OverrideOnlyNames == DOMAIN Val(patch_csv) \ CatalogFileNames

\* C9: update with a catalog and an override file, from an empty store and
\* with every lookup succeeding, creates a record for every catalog file name
\* and every override-only file name and returns their number.
C9_UnionTargets ==
    (/\ UpdateDone
     /\ ~IsNone(films_txt)
     /\ ~IsNone(patch_csv)
     /\ call.store = {}
     /\ AllLookupsSucceed)
    => (/\ \A f \in CatalogFileNames \cup OverrideOnlyNames : filter(store, f) # {}
        /\ ret = Some(Cardinality(CatalogFileNames) + Cardinality(OverrideOnlyNames)))

Assembled ==
    /\ applied.op = "get_media_info"
    /\ ~IsNone(applied.out)
    /\ Val(applied.out).out = "info"

AssembledInfo == Val(applied.out).info

\* the field is in the override set and in the remote record
Overridden(patch_key, imdb_key) ==
    patch_key \in DOMAIN applied.patch /\ imdb_key \in DOMAIN applied.movie

\* the names of a list of persons
Names(persons) == [i \in DOMAIN persons |-> persons[i][2]]

\* C11: for every field that both the override set and the remote record hold,
\* the assembled record has the override's value: title, image url, year,
\* runtime, description and rating as they are, genre and keywords as the list
\* the cell spells, cast and director as the persons the cell names, the colour
\* flag as the truth value the cell spells.
C11_OverridePrecedence ==
    Assembled =>
        LET p == applied.patch
            info == AssembledInfo
        IN /\ Overridden("title", "title") => info.title = p["title"]
           /\ Overridden("image_url", "cover url") => info.image_url = p["image_url"]
           /\ Overridden("genre", "genres") => info.genre = split_strip(p["genre"])
           /\ Overridden("keywords", "keywords") => info.keywords = split_strip(p["keywords"])
           /\ Overridden("year", "year") => info.year = p["year"]
           /\ Overridden("runtime", "runtimes") => info.runtime = p["runtime"]
           /\ Overridden("stars", "cast") => Names(info.stars) = SplitComma(p["stars"])
           /\ Overridden("director", "director") =>
                    Names(info.director) = SplitComma(p["director"])
           /\ Overridden("description", "plot") => info.description = p["description"]
           /\ Overridden("colour", "color info") => info.colour = (Lower(p["colour"]) = "true")
           /\ Overridden("imdb_rating", "rating") => info.imdb_rating = p["imdb_rating"]

\* C12: the assembled disc index is the override's if it has one, else the
\* entry of the physical media index whose key is the title without regard to
\* case, else empty; the physical flag is the override's if it has one, else
\* true exactly when the disc index is not empty.
C12_DiscIndexFallback ==
    Assembled =>
        LET p == applied.patch
            pm == applied.physical_media
            info == AssembledInfo
            entries == {k \in DOMAIN pm : Lower(k) = Lower(info.title)}
        IN /\ info.disc_index =
                    IF "disc_index" \in DOMAIN p THEN p["disc_index"]
                    ELSE IF entries # {} THEN pm[CHOOSE k \in entries : TRUE]
                    ELSE ""
           /\ info.physical =
                    IF "physical" \in DOMAIN p THEN p["physical"]
                    ELSE info.disc_index # ""

C12_Witness ==
    /\ Assembled
    /\ "disc_index" \notin DOMAIN applied.patch
    /\ "physical" \notin DOMAIN applied.patch
    /\ AssembledInfo.title = "Alien"
    /\ AssembledInfo.disc_index = "1.001"
    /\ AssembledInfo.physical

\* the best-match loop has chosen
Matched == applied.op = "best_match" /\ ~IsNone(applied.out)

\* similarity of the i-th candidate's title to the title searched for
Score(i) == get_match(applied.title, MovieTitle(applied.movies[i]))

\* C13: from a non-empty list of candidates the resolver takes one whose score
\* against the title searched for is highest, the earliest of those in the
\* list; a candidate with the very title is taken before any near match.
C13_BestMatch ==
    Matched =>
        /\ \E i \in DOMAIN applied.movies :
                /\ applied.movies[i] = Val(applied.out)
                /\ \A j \in DOMAIN applied.movies : Score(j) <= Score(i)
                /\ \A j \in 1 .. (i - 1) : Score(j) < Score(i)
        /\ (\E i \in DOMAIN applied.movies : MovieTitle(applied.movies[i]) = applied.title)
                => MovieTitle(Val(applied.out)) = applied.title

C13_Witness ==
    /\ Matched
    /\ applied.title = "Alien"
    /\ applied.movies = <<"5", "7", "3">>
    /\ Val(applied.out) = "7"

\* _read_patch_csv has run on a file whose header names the key column
PatchRead ==
    /\ applied.op = "read_patch_csv"
    /\ ~IsNone(applied.out)
    /\ header_index(applied.file.header, "filename") # 0

KeyColumn == header_index(applied.file.header, "filename")

\* the key of row i, without surrounding whitespace
RowKey(i) == Strip(applied.file.rows[i][KeyColumn])

\* row i holds a boolean cell that spells neither true nor false
BadBoolean(i) ==
    \E j \in DOMAIN applied.file.header :
        /\ model_field_type(applied.file.header[j]) = "bool"
        /\ applied.file.rows[i][j] # ""
        /\ Lower(applied.file.rows[i][j]) \notin {"true", "false"}

\* C14: a row whose boolean cell spells neither true nor false is rejected and
\* the rest of the file is read: the reader returns a mapping, which holds the
\* key of every other row that has a key, and holds the key of a rejected row
\* only if another row has it too.
C14_CoercionRowLocal ==
    PatchRead =>
        /\ Val(applied.out).out = "ok"
        /\ \A i \in DOMAIN applied.file.rows :
                (RowKey(i) # "" /\ ~BadBoolean(i)) => RowKey(i) \in DOMAIN Val(applied.out).patch
        /\ \A i \in DOMAIN applied.file.rows :
                (BadBoolean(i) /\ RowKey(i) \in DOMAIN Val(applied.out).patch)
                    => \E l \in DOMAIN applied.file.rows : ~BadBoolean(l) /\ RowKey(l) = RowKey(i)

\* the override set row i spells: a typed value for every cell that is not empty
RowOverrides(i) ==
    LET cols == {j \in DOMAIN applied.file.header \ {KeyColumn} : applied.file.rows[i][j] # ""}
    IN [name \in {applied.file.header[j] : j \in cols} |->
            LET j == CHOOSE l \in cols : applied.file.header[l] = name
            IN format_patch_value(applied.file.rows[i][j], name)]

\* C15: the mapping the reader returns has no empty key, and under a key that
\* several rows have it holds the override set of the first of them, wherever
\* in the row the key column is.
C15_FirstOccurrenceWins ==
    (PatchRead /\ Val(applied.out).out = "ok") =>
        /\ "" \notin DOMAIN Val(applied.out).patch
        /\ \A i \in DOMAIN applied.file.rows :
                (RowKey(i) # "" /\ \A l \in 1 .. (i - 1) : RowKey(l) # RowKey(i))
                    => /\ RowKey(i) \in DOMAIN Val(applied.out).patch
                       /\ Val(applied.out).patch[RowKey(i)] = RowOverrides(i)

\* _read_films_file has run
FilmsRead == applied.op = "read_films_file" /\ ~IsNone(applied.out)

\* the lines of the input that name a video file
VideoLines == {i \in DOMAIN applied.lines : Suffix(Strip(applied.lines[i])) \in ext}

\* C18: the sequence the catalog reader returns is the stripped lines of the
\* input whose extension is a video extension, in the order of the input, a
\* line that occurs k times occurring k times.
C18_CatalogReader ==
    FilmsRead =>
        LET out == Val(applied.out)
        IN /\ Len(out) = Cardinality(VideoLines)
           /\ \E f \in [DOMAIN out -> VideoLines] :
                /\ \A i, j \in DOMAIN out : i < j => f[i] < f[j]
                /\ \A i \in DOMAIN out : out[i] = Strip(applied.lines[f[i]])
           /\ \A l \in VideoLines :
                Occurrences(out, Strip(applied.lines[l]))
                    = Cardinality({i \in VideoLines :
                                        Strip(applied.lines[i]) = Strip(applied.lines[l])})

C18_Witness ==
    /\ FilmsRead
    /\ applied.lines = <<" b.mkv \n", "notes.txt\n", " b.mkv \n">>
    /\ Val(applied.out) = <<"b.mkv", "b.mkv">>

\* the call was given a films file that cannot be opened
FilmsUnreadable == ~IsNone(films_txt) /\ disk.films = "missing"

\* the call was given a patch csv that cannot be opened or has no key column
PatchUnusable == ~IsNone(patch_csv) /\ disk.patch \in {"missing", "no_key"}

\* C16: populate and update given a films file that cannot be opened, or a
\* patch csv that cannot be opened or whose header lacks the key column, raise
\* and leave the store as the call found it.
C16_ConfigErrorBeforeWrite ==
    (mode \in {"populate", "update"} /\ (FilmsUnreadable \/ PatchUnusable))
        => (/\ pc = "raised"
            /\ err \in {"OSError", "ValueError"}
            /\ store = call.store
            /\ alt = call.alt
            /\ nextPk = call.nextPk)

C16_Witness ==
    /\ mode = "update"
    /\ ~IsNone(patch_csv)
    /\ disk.patch = "no_key"
    /\ pc = "raised"
    /\ store # {}

\* the file the next iteration is for, and its override set
NextFile == files[n + 1]
NextInfo == patch_get(patch, NextFile)

\* the next iteration asks the resolver and the resolver has nothing to return
LookupFails ==
    /\ pc = "loop"
    /\ n < Len(files)
    /\ mode = "update" =>
            (/\ Cardinality(filter(store, NextFile)) <= 1
             /\ ~update_skip(filter(store, NextFile), NextInfo))
    /\ get_movie(Stem(NextFile), NextInfo, movie_cache, remote).out = "none"

\* C17: an iteration whose lookup fails inserts no record, leaves the counts
\* alone and the loop goes on to the next file.
C17_LookupFailureSkips ==
    [][LookupFails
        => (/\ last' = "no_result"
            /\ nextPk' = nextPk
            /\ store' \subseteq store
            /\ created_item_count' = created_item_count
            /\ count' = count
            /\ n' = n + 1
            /\ pc' = "loop")]_vars

C17_Witness ==
    /\ mode = "update"
    /\ pc = "loop"
    /\ last = "no_result"
    /\ n < Len(files)
    /\ "search_movie" \in {ops[i] : i \in DOMAIN ops}
    /\ store # {}

\* plain equality of an override value and the record's field of that name; the
\* alternate-version relation of a record equals no cell
FieldEquals(item, key, value) ==
    CASE key = "media_id" -> item.imdb_id = value
      [] key = "image_url" -> item.img = value
      [] key = "alt_versions" -> FALSE
      [] OTHER -> item[key] = value

\* one record has the next file's name
OneRecord == pc = "loop" /\ n < Len(files) /\ Cardinality(filter(store, NextFile)) = 1

\* every field the override names equals the record's
OverrideEquals(item) ==
    \A key \in DOMAIN Val(NextInfo) : FieldEquals(item, key, Val(NextInfo)[key])

\* C19: update at a file name that one record has, with no override for it or
\* with an override whose every field equals the record's, makes no call to
\* the remote source and changes neither the store nor the relation.
C19_UpdateSkip ==
    [][(/\ mode = "update"
        /\ OneRecord
        /\ (IsNone(NextInfo) \/ OverrideEquals(TheItem(filter(store, NextFile)))))
        => (/\ last' = "skip"
            /\ ops' = <<>>
            /\ store' = store
            /\ alt' = alt
            /\ nextPk' = nextPk
            /\ count' = count)]_vars

C19_Witness ==
    /\ mode = "update"
    /\ last = "skip"
    /\ ops = <<>>
    /\ n > 0
    /\ files[n] \in DOMAIN patch
    /\ Cardinality(filter(store, files[n])) = 1

\* C20: update at a file name that one record has, with an override that
\* differs from it in some field, deletes the record first: before any call to
\* the remote source and before the insert.  The record is gone afterwards
\* whatever the lookup gave, its key is not used again, no other record is
\* changed and at most one record has the file name.
C20_DeleteThenRecreate ==
    [][(/\ mode = "update"
        /\ OneRecord
        /\ ~IsNone(NextInfo)
        /\ ~OverrideEquals(TheItem(filter(store, NextFile))))
        => (/\ ops' # <<>>
            /\ ops'[1] = "delete"
            /\ \A i \in 2 .. Len(ops') : ops'[i] # "delete"
            /\ \A r \in store' : r.pk # TheItem(filter(store, NextFile)).pk
            /\ \A r \in store' : r \in store \/ r.pk >= nextPk
            /\ Cardinality(filter(store', NextFile)) <= 1)]_vars

C20_Witness ==
    /\ mode = "update"
    /\ last = "recreated"
    /\ ops = <<"delete", "get_movie", "update", "insert">>
    /\ Cardinality(filter(store, files[n])) = 1

\* the file names the next file's override lists as alternate versions
NextRefs ==
    IF IsNone(NextInfo) \/ "alt_versions" \notin DOMAIN Val(NextInfo) THEN <<>>
    ELSE SelectSeq(SplitComma(Val(NextInfo)["alt_versions"]), LAMBDA fname : fname # "")

\* C21: when a record is created, for each file name its override lists: if
\* one record has that name the relation from the new record to it is added and
\* no stored record is changed; if none has it the pair (new record, name) is
\* appended to the deferred queue; if several have it no relation is added and
\* the queue is left alone.
C21_ImmediateLinking ==
    [][(pc = "loop" /\ n < Len(files) /\ nextPk' = nextPk + 1)
        => LET one == {i \in DOMAIN NextRefs :
                            Cardinality(filter(store', NextRefs[i])) = 1}
               zero == {i \in DOMAIN NextRefs : filter(store', NextRefs[i]) = {}}
               added == Len(waiting_for_alt_versions') - Len(waiting_for_alt_versions)
           IN /\ {e \in alt' : e[1] = nextPk}
                    = {<<nextPk, TheItem(filter(store', NextRefs[i])).pk>> : i \in one}
              /\ added = Cardinality(zero)
              /\ SubSeq(waiting_for_alt_versions', 1, Len(waiting_for_alt_versions))
                    = waiting_for_alt_versions
              /\ {waiting_for_alt_versions'[Len(waiting_for_alt_versions) + j] : j \in 1 .. added}
                    = {<<nextPk, NextRefs[i]>> : i \in zero}
              /\ \A r \in store' : r.pk # nextPk => r \in store]_vars

C21_Witness ==
    /\ pc = "loop"
    /\ last = "created"
    /\ n > 0
    /\ ListsAlt(files[n], "b.mkv")
    /\ \E a \in filter(store, files[n]), b \in filter(store, "b.mkv") :
            /\ a.pk = nextPk - 1
            /\ <<a.pk, b.pk>> \in alt
            /\ ~b.is_alt_version
            /\ Cardinality(filter(store, "b.mkv")) = 1

\* the queued entries whose file name one record has
Resolvable ==
    {i \in DOMAIN waiting_for_alt_versions :
        Cardinality(filter(store, waiting_for_alt_versions[i][2])) = 1}

\* the record the i-th queued entry names
Target(i) == TheItem(filter(store, waiting_for_alt_versions[i][2]))

\* C22: the drain goes through every queued entry: where one record has the
\* entry's file name that record's alternate-version flag is true afterwards
\* and the relation from the entry's record to it exists; for the other
\* entries no relation is added and no record is changed.
C22_Drain ==
    [][(mode = "populate" /\ pc = "loop" /\ n = Len(files))
        => (/\ pc' = "done"
            /\ \A i \in Resolvable :
                    /\ [Target(i) EXCEPT !.is_alt_version = TRUE] \in store'
                    /\ <<waiting_for_alt_versions[i][1], Target(i).pk>> \in alt'
            /\ alt' \ alt \subseteq
                    {<<waiting_for_alt_versions[i][1], Target(i).pk>> : i \in Resolvable}
            /\ store' \ store \subseteq
                    {[Target(i) EXCEPT !.is_alt_version = TRUE] : i \in Resolvable})]_vars

\* C23: a run that ends has drained the deferred queue once, and the queue is
\* drained only when every file of the batch has been processed.
C23_DrainOnceAtEnd ==
    /\ pc = "done" => drains = 1
    /\ drains > 0 => n = Len(files)

\* the next iteration asks the resolver for the next file
AsksResolver ==
    /\ pc = "loop"
    /\ n < Len(files)
    /\ mode = "update" =>
            (/\ Cardinality(filter(store, NextFile)) <= 1
             /\ ~update_skip(filter(store, NextFile), NextInfo))

\* the calls to the remote source among a sequence of operations
RemoteCalls(made) ==
    {i \in DOMAIN made : made[i] \in {"get_movie", "search_movie", "update"}}

\* the next file's override names an external id and flags an alternate version
FlaggedAlt ==
    /\ ~IsNone(NextInfo)
    /\ "media_id" \in DOMAIN Val(NextInfo)
    /\ Get(Val(NextInfo), "is_alt_version", FALSE)

\* C24: the cache gains a record only under the external id the override
\* names, and only in an iteration that fetched the record and its detail; an
\* alternate version whose id is cached is assembled and inserted without a
\* call to the remote source, one whose id is not cached is fetched by id.
C24_Cache ==
    [][(pc = "loop" /\ n < Len(files))
        => (/\ movie_cache \subseteq movie_cache'
            /\ movie_cache' # movie_cache =>
                    (/\ ~IsNone(NextInfo)
                     /\ "media_id" \in DOMAIN Val(NextInfo)
                     /\ movie_cache' = movie_cache \cup {Val(NextInfo)["media_id"]}
                     /\ remote[Val(NextInfo)["media_id"]] = "ok"
                     /\ \E i, j \in DOMAIN ops' :
                            i < j /\ ops'[i] = "get_movie" /\ ops'[j] = "update")
            /\ (AsksResolver /\ FlaggedAlt /\ Val(NextInfo)["media_id"] \in movie_cache)
                    => (RemoteCalls(ops') = {} /\ nextPk' = nextPk + 1)
            /\ (AsksResolver /\ FlaggedAlt /\ Val(NextInfo)["media_id"] \notin movie_cache)
                    => (\E i \in DOMAIN ops' : ops'[i] = "get_movie"))]_vars

C24_Witness ==
    /\ pc = "loop"
    /\ last = "created"
    /\ ops = <<"insert">>
    /\ files[n] \in DOMAIN patch
    /\ Get(patch[files[n]], "is_alt_version", FALSE)
    /\ patch[files[n]]["media_id"] \in movie_cache

RemoteOps(made) ==
    SelectSeq(made, LAMBDA o : o \in {"get_movie", "search_movie", "update"})

\* C26: an override that names an external id is resolved by fetching that id
\* (unless the cache serves it); no override, or an override without an
\* external id, is resolved by a title search and the run carries on.
C26_ResolverMode ==
    [][AsksResolver
        => (/\ (~IsNone(NextInfo) /\ "media_id" \in DOMAIN Val(NextInfo)
                 /\ ~(FlaggedAlt /\ Val(NextInfo)["media_id"] \in movie_cache))
                    => (RemoteOps(ops') # <<>> /\ RemoteOps(ops')[1] = "get_movie")
            /\ (IsNone(NextInfo) \/ "media_id" \notin DOMAIN Val(NextInfo))
                    => (/\ RemoteOps(ops') # <<>>
                        /\ RemoteOps(ops')[1] = "search_movie"
                        /\ pc' = "loop"))]_vars

\* the records a step inserts
NewRecords == {r \in store' : r.pk >= nextPk}

\* the digital value the next file's override asks for
AskedDigital ==
    IF IsNone(NextInfo) THEN digital_default
    ELSE Get(Val(NextInfo), "digital", digital_default)

\* C27: a record that update inserts for a reference without a suffix has its
\* digital flag false whatever the override says; one inserted for a reference
\* with a suffix has the override's digital value, or true without one.
C27_BareNameNotDigital ==
    [][(mode = "update" /\ pc = "loop" /\ n < Len(files))
        => \A r \in NewRecords :
              /\ r.filename = NextFile
              /\ r.digital = IF Suffix(NextFile) = "" THEN FALSE ELSE AskedDigital]_vars

\* update has inserted a record for a bare name whose override sets digital
C27_Witness ==
    /\ mode = "update"
    /\ pc = "loop"
    /\ last \in {"created", "recreated"}
    /\ Suffix(files[n]) = ""
    /\ files[n] \in DOMAIN patch
    /\ Get(patch[files[n]], "digital", FALSE)
    /\ \E r \in store : r.pk = nextPk - 1 /\ r.filename = files[n] /\ ~r.digital

\* the keys of the rows of a table
Keys(table) == {table[i][1] : i \in DOMAIN table}

\* the keys a MediaInfo refers to in a table
KeysOf(media_info, t) ==
    UNION {{ref_pk(name, media_info[name][i]) : i \in DOMAIN media_info[name]} :
              name \in {x \in DOMAIN media_info : model_class(x) = t}}

\* C28: after every record creation each table of referenced entities holds
\* at most one row per key; a creation leaves the rows that exist as they are
\* and adds a row exactly for each key it refers to that had none; and each
\* counter has grown by the number of rows added to its table.
C28_UniqueEntities ==
    [][applied'.op = "add_refs"
        => \A t \in DOMAIN applied'.tables :
             LET old == applied.tables[t]
                 new == applied'.tables[t]
             IN /\ \A i, j \in DOMAIN new : new[i][1] = new[j][1] => i = j
                /\ SubSeq(new, 1, Len(old)) = old
                /\ Keys(new) = Keys(old) \cup KeysOf(Val(applied'.info), t)
                /\ applied'.count[t] - applied.count[t] = Len(new) - Len(old)]_vars

\* a second creation names a person the first one created, under another name
C28_Witness ==
    /\ applied.op = "add_refs"
    /\ applied.done = 2
    /\ applied.info = Some([genre |-> <<"Sci-Fi", "Sci-Fi">>, keywords |-> <<"space">>,
                            director |-> << <<"631", "Ridley Scott">> >>,
                            stars |-> << <<"244", "S. Weaver">>, <<"631", "Ridley Scott">> >>])
    /\ applied.tables.person = << <<"244", "Sigourney Weaver">>, <<"631", "Ridley Scott">> >>
    /\ applied.tables.genre = << <<"Sci-Fi", "Sci-Fi">> >>
    /\ applied.count = [genre |-> 1, keywords |-> 1, person |-> 2]

\* C29: when an update run has finished, every filename that had exactly one
\* record when the run began still has a record.
C29_UpdateKeepsRecords ==
    UpdateDone =>
        \A f \in Filenames :
            Cardinality(filter(call.store, f)) = 1 => filter(store, f) # {}

\* at most one record per filename
UniqueFilenames(records) ==
    \A r1, r2 \in records : r1.filename = r2.filename => r1 = r2

\* C30: a step of update taken from a store with at most one record per
\* filename leaves at most one record per filename; a step of populate that
\* resolves metadata inserts one more record for the file, stored or not.
C30_UpdateKeepsUnique ==
    [][(pc = "loop" /\ n < Len(files))
        => (/\ (mode = "update" /\ UniqueFilenames(store)) => UniqueFilenames(store')
            /\ (mode = "populate" /\ last' = "created")
                   => (/\ Cardinality(filter(store', NextFile))
                          = Cardinality(filter(store, NextFile)) + 1
                       /\ store \subseteq store'))]_vars

\* update has finished a target list that names a file twice, the file
\* recreated from a record stored before
C30_Witness ==
    /\ UpdateDone
    /\ Len(files) = 2
    /\ files[1] = files[2]
    /\ Cardinality(filter(call.store, files[1])) = 1
    /\ Cardinality(CreatedBy(files[1])) = 1
    /\ UniqueFilenames(store)

====
